---- MODULE Spec2Model ----
(***************************************************************************)
(* Model of ubuntu_image_fetcher.py: main() reads URLs, maps               *)
(* fetch_and_save_image over a 3-worker thread pool and prints a summary.  *)
(* Every call of fetch_and_save_image is a sequence of steps; each step    *)
(* holds at most one access to the shared target directory, so that the    *)
(* workers interleave exactly where the threads of the program can.        *)
(*                                                                         *)
(* File names are sequences of tokens (<<"a", ".png">> is "a.png"), so      *)
(* that file_path + ".tmp" is Append(name, ".tmp").  The directory maps    *)
(* names to inodes, and inodes to contents, as a POSIX file system does:   *)
(* an open file keeps its inode when the name is renamed or unlinked.      *)
(***************************************************************************)
EXTENDS Integers, Sequences, FiniteSets, TLC

\* ---------------------------------------------------------------- bounds
MaxUrls == 2          \* URLs typed at the prompt
MaxTime == 1          \* seconds the clock can show (0..MaxTime)

\* ------------------------------------------------------ program constants
MaxWorkers == 3       \* ThreadPoolExecutor(max_workers=3)

None == <<"None">>    \* Python's None, as a hash value
Unbound == <<>>       \* a local name (filename, temp_path) never assigned
NoFd == 0             \* no file was opened
Empty == 0            \* the content of a file opened "wb" and not yet written
Bodies == {1, 2}      \* response.content values (non-empty byte strings)

valid_types == {"image/jpeg", "image/png", "image/gif", "image/bmp"}
valid_exts == {".jpg", ".jpeg", ".png", ".gif", ".bmp"}

\* str.lower() on the extension tokens the model uses
lower(tok) ==
  CASE tok = ".PNG" -> ".png"
    [] tok = ".JPG" -> ".jpg"
    [] tok = ".Jpeg" -> ".jpeg"
    [] tok = ".GIF" -> ".gif"
    [] tok = ".Bmp" -> ".bmp"
    [] tok = ".TXT" -> ".txt"
    [] OTHER -> tok

\* datetime.now().strftime("%Y%m%d_%H%M%S") for the seconds of the model
strftime(t) ==
  <<"20260101_000000", "20260101_000001", "20260101_000002",
    "20260101_000003">>[t + 1]

\* ------------------------------------------------------------------ URLs
\* A URL is [host, path, query]; path is a sequence of segments, a segment
\* is a sequence of tokens, the last token being the extension if any.
Url(h, p, q) == [host |-> h, path |-> p, query |-> q]

UrlA == Url("site", << <<"img">>, <<"a", ".png">> >>, "")
UrlA2 == Url("mirror", << <<"a", ".png">> >>, "")
UrlD == Url("site", << <<"download">> >>, "")
UrlX == Url("site", << <<"page", ".PNG">> >>, "")
Urls == {UrlA, UrlA2, UrlD, UrlX}

\* os.path.basename(urlparse(url).path)
basename(url) ==
  IF Len(url.path) = 0 THEN <<>> ELSE url.path[Len(url.path)]

\* the extension test without lower(): upper-case extensions are refused
endswith_image_ext_CaseSensitive(filename) ==
  Len(filename) > 0 /\ filename[Len(filename)] \in valid_exts

\* filename.lower().endswith(('.jpg', '.jpeg', '.png', '.gif', '.bmp'))
endswith_image_ext(filename) ==
  Len(filename) > 0 /\ lower(filename[Len(filename)]) \in valid_exts

\* lines 51-55: the name from the URL, or image_<timestamp>.jpg
NeedsTimestamp(url) ==
  basename(url) = <<>> \/ ~endswith_image_ext(basename(url))

FilenameFor(url, t) ==
  IF NeedsTimestamp(url)
    THEN <<"image_", strftime(t), ".jpg">>
    ELSE basename(url)

\* temp_path = file_path + ".tmp"
TempPath(filename) == Append(filename, ".tmp")

IsTemp(name) == Len(name) > 0 /\ name[Len(name)] = ".tmp"

\* ------------------------------------------------------------- responses
\* What requests.get + raise_for_status can produce for one URL.
RequestErrors == {"HTTPError", "ConnectionError", "Timeout", "RequestException"}

Response(k, c, b) == [kind |-> k, ctype |-> c, body |-> b]

\* The servers of the model: two URLs with the same file name and different
\* images, a URL without a file name that serves the image of UrlA, and a URL
\* that never delivers an image.
Responses(url) ==
  CASE url = UrlA -> {Response("ok", "image/png", 1)}
    [] url = UrlA2 -> {Response("ok", "image/png", 2)}
    [] url = UrlD -> {Response("ok", "image/jpeg", 1)}
    [] OTHER -> {Response("ok", c, 1) : c \in {"", "text/html"}}
                  \cup {Response(k, "", 1) : k \in RequestErrors}

NoResponse == [kind |-> "none", ctype |-> "", body |-> 1]

is_valid_image(content_type) == content_type \in valid_types

\* hashlib.sha256 of a content: injective on the contents of the model
sha256(content) == <<"sha256", content>>

VARIABLES
  mainpc,     \* where main() is: "input", "pool", "done"
  urls,       \* the list main() read
  output,     \* what main() printed at its end
  now,        \* the clock, in seconds
  dirExists,  \* whether the target directory exists
  dir,        \* the directory: a function from names to inodes
  inode,      \* the content of each inode; call i creates inode i
  call        \* the calls of fetch_and_save_image, one per URL

vars == <<mainpc, urls, output, now, dirExists, dir, inode, call>>

Calls == 1..Len(urls)

\* get_file_hash(filepath): None when the file does not exist
get_file_hash(name) ==
  IF name \in DOMAIN dir THEN sha256(inode[dir[name]]) ELSE None

\* the directory as a reader sees it: each name with its content
Listing == [n \in DOMAIN dir |-> inode[dir[n]]]

Unlink(d, name) == [n \in DOMAIN d \ {name} |-> d[n]]

Link(d, name, ino) == [n \in DOMAIN d \cup {name} |-> IF n = name THEN ino ELSE d[n]]

NoOutput == [kind |-> "none", successes |-> 0, total |-> 0]

NewCall(url) ==
  [url |-> url, pc |-> "queued", resp |-> NoResponse, filename |-> Unbound,
   temp_path |-> Unbound, fd |-> NoFd, new_hash |-> None, todo |-> {},
   ret |-> "none", outcome |-> "none", fault |-> FALSE, after |-> {},
   before |-> <<>>, clobbered |-> FALSE]

Init ==
  /\ mainpc = "input"
  /\ urls = <<>>
  /\ output = NoOutput
  /\ now = 0
  /\ dirExists = FALSE
  /\ dir = <<>>
  /\ inode = <<>>
  /\ call = <<>>

\* main, lines 118-122: one more URL is entered
ReadUrl(url) ==
  /\ mainpc = "input"
  /\ Len(urls) < MaxUrls
  /\ urls' = Append(urls, url)
  /\ call' = Append(call, NewCall(url))
  /\ inode' = Append(inode, Empty)
  /\ UNCHANGED <<mainpc, output, now, dirExists, dir>>

\* the blank line without the test of line 124: the pool is always entered
ReadBlank_NoCheck ==
  /\ mainpc = "input"
  /\ mainpc' = "pool"
  /\ UNCHANGED <<urls, output, now, dirExists, dir, inode, call>>

\* main, lines 119-130: the blank line ends the input
ReadBlank ==
  /\ mainpc = "input"
  /\ IF urls = <<>>
       THEN mainpc' = "done" /\ output' = [NoOutput EXCEPT !.kind = "no_urls"]
       ELSE mainpc' = "pool" /\ UNCHANGED output
  /\ UNCHANGED <<urls, now, dirExists, dir, inode, call>>

Running == {j \in Calls : call[j].pc \notin {"queued", "returned"}}

\* ThreadPoolExecutor: a worker takes the next queued call and runs
\* lines 35-62 of it (the request, the content type, the file name,
\* os.makedirs and the binding of temp_path), which touch nothing the other
\* calls read; lines 84-95 turn a request error into return False
Fetch(i, r, t) ==
  /\ mainpc = "pool"
  /\ call[i].pc = "queued"
  /\ \A j \in 1..(i - 1) : call[j].pc # "queued"
  /\ Cardinality(Running) < MaxWorkers
  /\ LET started == [call[i] EXCEPT
                       !.after = {j \in Calls : call[j].pc = "returned"},
                       !.before = Listing, !.resp = r] IN
     IF r.kind \in RequestErrors
       THEN /\ call' = [call EXCEPT ![i] = [started EXCEPT
                          !.pc = "finally", !.ret = "False", !.outcome = r.kind]]
            /\ UNCHANGED <<now, dirExists>>
       ELSE IF ~is_valid_image(r.ctype)
       THEN /\ call' = [call EXCEPT ![i] = [started EXCEPT
                          !.pc = "finally", !.ret = "False",
                          !.outcome = "invalid_content_type"]]
            /\ UNCHANGED <<now, dirExists>>
       ELSE /\ IF NeedsTimestamp(call[i].url) THEN now' = t ELSE UNCHANGED now
            /\ dirExists' = TRUE
            /\ call' = [call EXCEPT ![i] = [started EXCEPT
                          !.pc = "open",
                          !.filename = FilenameFor(call[i].url, t),
                          !.temp_path = TempPath(FilenameFor(call[i].url, t))]]
  /\ UNCHANGED <<mainpc, urls, output, dir, inode>>

\* line 58 refused: os.makedirs raises PermissionError before file_path
\* (line 59) and temp_path (line 62) are bound.  The handler of line 96 reads
\* file_path to build its message and raises UnboundLocalError itself, so it
\* prints nothing and returns nothing; the finally block follows.
MakeDirsDenied(i, r, t) ==
  /\ mainpc = "pool"
  /\ call[i].pc = "queued"
  /\ \A j \in 1..(i - 1) : call[j].pc # "queued"
  /\ Cardinality(Running) < MaxWorkers
  /\ r.kind = "ok" /\ is_valid_image(r.ctype)
  /\ IF NeedsTimestamp(call[i].url) THEN now' = t ELSE UNCHANGED now
  /\ call' = [call EXCEPT ![i] = [call[i] EXCEPT
                 !.after = {j \in Calls : call[j].pc = "returned"},
                 !.before = Listing, !.resp = r,
                 !.pc = "finally", !.fault = TRUE,
                 !.filename = FilenameFor(call[i].url, t)]]
  /\ UNCHANGED <<mainpc, urls, output, dirExists, dir, inode>>

\* line 63 refused: open(temp_path, "wb") raises PermissionError, which line
\* 96 reports with file_path; return False
OpenDenied(i) ==
  /\ call[i].pc = "open"
  /\ call' = [call EXCEPT ![i].pc = "finally", ![i].ret = "False",
                          ![i].outcome = "permission", ![i].fault = TRUE]
  /\ UNCHANGED <<mainpc, urls, output, now, dirExists, dir, inode>>

\* line 63: open(temp_path, "wb") creates the file or truncates the one there
OpenTemp(i) ==
  /\ call[i].pc = "open"
  /\ LET tp == call[i].temp_path
         ino == IF tp \in DOMAIN dir THEN dir[tp] ELSE i IN
       /\ dir' = Link(dir, tp, ino)
       /\ inode' = [inode EXCEPT ![ino] = Empty]
       /\ call' = [call EXCEPT ![i].pc = "write", ![i].fd = ino]
  /\ UNCHANGED <<mainpc, urls, output, now, dirExists>>

\* the names under which inode ino is promoted (final, not .tmp)
FinalNamesOf(ino) == {n \in DOMAIN dir : ~IsTemp(n) /\ dir[n] = ino}

\* line 64: f.write(response.content) goes to the inode that was opened; the
\* write can fail (OSError, a full disk), which line 99 catches.  clobbered
\* records that the write changed the content of a file already promoted.
WriteTemp(i, ok) ==
  /\ call[i].pc = "write"
  /\ IF ok
       THEN /\ inode' = [inode EXCEPT ![call[i].fd] = call[i].resp.body]
            /\ call' = [call EXCEPT ![i].pc = "hash",
                                    ![i].clobbered =
                                      /\ FinalNamesOf(call[i].fd) # {}
                                      /\ inode[call[i].fd] # call[i].resp.body]
       ELSE /\ inode' = inode
            /\ call' = [call EXCEPT ![i].pc = "finally", ![i].ret = "False",
                                    ![i].outcome = "unexpected",
                                    ![i].fault = TRUE]
  /\ UNCHANGED <<mainpc, urls, output, now, dirExists, dir>>

\* line 67: new_hash = get_file_hash(temp_path)
HashTemp(i) ==
  /\ call[i].pc = "hash"
  /\ call' = [call EXCEPT ![i].pc = "listdir",
                          ![i].new_hash = get_file_hash(call[i].temp_path)]
  /\ UNCHANGED <<mainpc, urls, output, now, dirExists, dir, inode>>

\* a listing that leaves out the promoted files
ListDir_TempsOnly(i) ==
  /\ call[i].pc = "listdir"
  /\ call' = [call EXCEPT ![i].pc = "scan",
                          ![i].todo = {n \in DOMAIN dir : IsTemp(n)}]
  /\ UNCHANGED <<mainpc, urls, output, now, dirExists, dir, inode>>

\* line 70: os.listdir(directory) returns the names present at that moment
ListDir(i) ==
  /\ call[i].pc = "listdir"
  /\ call' = [call EXCEPT ![i].pc = "scan", ![i].todo = DOMAIN dir]
  /\ UNCHANGED <<mainpc, urls, output, now, dirExists, dir, inode>>

\* the scan without the test that skips the call's own temp file
IsDuplicate_NoSelfSkip(i, existing) ==
  get_file_hash(existing) = call[i].new_hash

\* line 72: existing_path != temp_path and get_file_hash(existing_path) == new_hash
IsDuplicate(i, existing) ==
  existing # call[i].temp_path /\ get_file_hash(existing) = call[i].new_hash

\* lines 70-73: one iteration of the scan; os.listdir gives no order
ScanEntry(i, existing) ==
  /\ call[i].pc = "scan"
  /\ existing \in call[i].todo
  /\ IF IsDuplicate(i, existing)
       THEN call' = [call EXCEPT ![i].pc = "remove_dup", ![i].todo = {}]
       ELSE call' = [call EXCEPT ![i].todo = call[i].todo \ {existing}]
  /\ UNCHANGED <<mainpc, urls, output, now, dirExists, dir, inode>>

\* lines 74-75 (and 99-101): os.remove(temp_path); return False
RemoveDup(i) ==
  /\ call[i].pc = "remove_dup"
  /\ IF call[i].temp_path \in DOMAIN dir
       THEN /\ dir' = Unlink(dir, call[i].temp_path)
            /\ call' = [call EXCEPT ![i].pc = "finally", ![i].ret = "False",
                                    ![i].outcome = "duplicate"]
       ELSE /\ dir' = dir   \* FileNotFoundError, caught by except Exception
            /\ call' = [call EXCEPT ![i].pc = "finally", ![i].ret = "False",
                                    ![i].outcome = "unexpected"]
  /\ UNCHANGED <<mainpc, urls, output, now, dirExists, inode>>

\* os.rename(src, dst) on POSIX: dst is replaced if it exists
rename(d, src, dst) == Unlink(Link(d, dst, d[src]), src)

\* lines 78-82 (and 96-101): os.rename(temp_path, file_path); return True.
\* The rename can be refused (PermissionError, line 96); a temp file that is
\* gone makes it raise FileNotFoundError, which line 99 catches.
Rename(i, ok) ==
  /\ call[i].pc = "scan"
  /\ call[i].todo = {}
  /\ IF ~ok
       THEN /\ dir' = dir
            /\ call' = [call EXCEPT ![i].pc = "finally", ![i].ret = "False",
                                    ![i].outcome = "permission",
                                    ![i].fault = TRUE]
       ELSE IF call[i].temp_path \in DOMAIN dir
       THEN /\ dir' = rename(dir, call[i].temp_path, call[i].filename)
            /\ call' = [call EXCEPT ![i].pc = "finally", ![i].ret = "True",
                                    ![i].outcome = "success"]
       ELSE /\ dir' = dir
            /\ call' = [call EXCEPT ![i].pc = "finally", ![i].ret = "False",
                                    ![i].outcome = "unexpected"]
  /\ UNCHANGED <<mainpc, urls, output, now, dirExists, inode>>

\* a finally block that never finds the temp file, so never removes it
FinallyExists_NoCleanup(i) ==
  /\ call[i].pc = "finally"
  /\ IF call[i].temp_path = Unbound
       THEN call' = [call EXCEPT ![i].pc = "returned", ![i].ret = "Raised"]
       ELSE call' = [call EXCEPT ![i].pc = "returned"]
  /\ UNCHANGED <<mainpc, urls, output, now, dirExists, dir, inode>>

\* line 104: os.path.exists(temp_path); temp_path is a local of the function
\* and reading it before line 62 ran raises UnboundLocalError out of finally
FinallyExists(i) ==
  /\ call[i].pc = "finally"
  /\ IF call[i].temp_path = Unbound
       THEN call' = [call EXCEPT ![i].pc = "returned", ![i].ret = "Raised"]
       ELSE IF call[i].temp_path \in DOMAIN dir
       THEN call' = [call EXCEPT ![i].pc = "finally_remove"]
       ELSE call' = [call EXCEPT ![i].pc = "returned"]
  /\ UNCHANGED <<mainpc, urls, output, now, dirExists, dir, inode>>

\* lines 105-108: os.remove(temp_path), any error swallowed
FinallyRemove(i) ==
  /\ call[i].pc = "finally_remove"
  /\ dir' = Unlink(dir, call[i].temp_path)
  /\ call' = [call EXCEPT ![i].pc = "returned"]
  /\ UNCHANGED <<mainpc, urls, output, now, dirExists, inode>>

\* sum(1 for result in results if result)
RECURSIVE CountTrue(_)
CountTrue(n) ==
  IF n = 0 THEN 0
  ELSE CountTrue(n - 1) + (IF call[n].ret = "True" THEN 1 ELSE 0)

\* lines 129-142: the pool is left when every call is over; iterating the
\* results re-raises the exception of a call, which line 141 catches
Summarise ==
  /\ mainpc = "pool"
  /\ \A i \in Calls : call[i].pc = "returned"
  /\ mainpc' = "done"
  /\ LET successes == CountTrue(Len(urls)) IN
     output' =
       IF \E i \in Calls : call[i].ret = "Raised"
         THEN [NoOutput EXCEPT !.kind = "unexpected"]
       ELSE IF successes > 0
         THEN [kind |-> "summary", successes |-> successes, total |-> Len(urls)]
         ELSE [NoOutput EXCEPT !.kind = "failed"]
  /\ UNCHANGED <<urls, now, dirExists, dir, inode, call>>

Next ==
  \/ \E url \in Urls : ReadUrl(url)
  \/ ReadBlank
  \/ \E i \in Calls : \E r \in Responses(call[i].url), t \in now..MaxTime :
       Fetch(i, r, t)
  \/ \E i \in Calls : \E r \in Responses(call[i].url), t \in now..MaxTime :
       MakeDirsDenied(i, r, t)
  \/ \E i \in Calls : OpenDenied(i)
  \/ \E i \in Calls : OpenTemp(i)
  \/ \E i \in Calls, ok \in BOOLEAN : WriteTemp(i, ok)
  \/ \E i \in Calls : HashTemp(i)
  \/ \E i \in Calls : ListDir(i)
  \/ \E i \in Calls : \E existing \in call[i].todo : ScanEntry(i, existing)
  \/ \E i \in Calls : RemoveDup(i)
  \/ \E i \in Calls, ok \in BOOLEAN : Rename(i, ok)
  \/ \E i \in Calls : FinallyExists(i)
  \/ \E i \in Calls : FinallyRemove(i)
  \/ Summarise

Spec == Init /\ [][Next]_vars

\* ------------------------------------------- a batch that fills the pool
\* main has read the same URL once per worker
Batches == {[i \in 1..MaxWorkers |-> UrlA]}

InitBatch ==
  /\ mainpc = "pool"
  /\ urls \in Batches
  /\ call = [i \in 1..MaxWorkers |-> NewCall(urls[i])]
  /\ inode = [i \in 1..MaxWorkers |-> Empty]
  /\ output = NoOutput
  /\ now = 0
  /\ dirExists = FALSE
  /\ dir = <<>>

NextPool ==
  \/ \E i \in Calls : \E r \in Responses(call[i].url), t \in now..MaxTime :
       Fetch(i, r, t)
  \/ \E i \in Calls : \E r \in Responses(call[i].url), t \in now..MaxTime :
       MakeDirsDenied(i, r, t)
  \/ \E i \in Calls : OpenDenied(i)
  \/ \E i \in Calls : OpenTemp(i)
  \/ \E i \in Calls, ok \in BOOLEAN : WriteTemp(i, ok)
  \/ \E i \in Calls : HashTemp(i)
  \/ \E i \in Calls : ListDir(i)
  \/ \E i \in Calls : \E existing \in call[i].todo : ScanEntry(i, existing)
  \/ \E i \in Calls : RemoveDup(i)
  \/ \E i \in Calls, ok \in BOOLEAN : Rename(i, ok)
  \/ \E i \in Calls : FinallyExists(i)
  \/ \E i \in Calls : FinallyRemove(i)
  \/ Summarise

SpecBatch == InitBatch /\ [][NextPool]_vars

\* ------------------------------------------------- the namer on its own
\* The URLs given to lines 51-55: every path below under two hosts, with
\* and without a query string.
NamerPaths ==
  { <<>>,
    << <<"img">>, <<>> >>,
    << <<"download">> >>,
    << <<"a", ".png">> >>,
    << <<"img">>, <<"a", ".PNG">> >>,
    << <<"b", ".jpg">> >>,
    << <<"b", ".JPG">> >>,
    << <<"c", ".Jpeg">> >>,
    << <<"c", ".jpeg">> >>,
    << <<"d", ".GIF">> >>,
    << <<"d", ".gif">> >>,
    << <<"e", ".Bmp">> >>,
    << <<"e", ".bmp">> >>,
    << <<".png">> >>,
    << <<"f", ".txt">> >>,
    << <<"f", ".TXT">> >>,
    << <<"g", ".png", ".tmp">> >>,
    << <<"a", ".png">>, <<"view">> >> }

NamerUrls ==
  {Url(h, p, q) : h \in {"site", "mirror"}, p \in NamerPaths, q \in {"", "f=x.png"}}

InitNamer ==
  /\ mainpc = "pool"
  /\ \E url \in NamerUrls :
       /\ urls = <<url>>
       /\ call = <<NewCall(url)>>
  /\ output = NoOutput
  /\ now = 0
  /\ dirExists = FALSE
  /\ dir = <<>>
  /\ inode = <<Empty>>

\* lines 51-55 alone: the file name is computed at clock reading t
NameUrl(i, t) ==
  /\ call[i].pc = "queued"
  /\ now' = t
  /\ call' = [call EXCEPT ![i].pc = "named",
                          ![i].filename = FilenameFor(call[i].url, t)]
  /\ UNCHANGED <<mainpc, urls, output, dirExists, dir, inode>>

NextNamer == \E i \in Calls, t \in now..MaxTime : NameUrl(i, t)

SpecNamer == InitNamer /\ [][NextNamer]_vars

\* ----------------------------------------------------------------- claims
Returned(i) == call[i].pc = "returned"

AllReturned == mainpc # "input" /\ \A i \in Calls : Returned(i)

GotImage(i) == call[i].resp.kind = "ok" /\ is_valid_image(call[i].resp.ctype)

TempNames == {n \in DOMAIN dir : IsTemp(n)}

\* the names under which a content is stored
FilesWith(body) == {n \in DOMAIN dir : inode[dir[n]] = body}

\* call j ran after call i had returned and no other call has started yet
Sequential(i, j) ==
  /\ i # j
  /\ Returned(i) /\ Returned(j)
  /\ i \in call[j].after
  /\ \A k \in Calls \ {i, j} : call[k].pc = "queued"

\* C1: a response whose Content-Type is missing or not allow-listed makes the
\* call return False without raising, and the call creates no file.
C1_InvalidTypeFails ==
  \A i \in Calls :
    (Returned(i) /\ call[i].resp.kind = "ok" /\ ~is_valid_image(call[i].resp.ctype))
      => (call[i].ret = "False" /\ call[i].fd = NoFd)

\* C2: a connection error, timeout, request error or HTTP error status makes
\* the call return False; no exception leaves the call.
C2_RequestErrorFails ==
  \A i \in Calls :
    (Returned(i) /\ call[i].resp.kind \in RequestErrors)
      => call[i].ret = "False"

\* C3: once every call has returned, no two files of the directory have the
\* same content.
C3_HashUnique ==
  AllReturned =>
    \A n1, n2 \in DOMAIN dir : inode[dir[n1]] = inode[dir[n2]] => n1 = n2

\* C4: at the moment a call returns True, the file at its final path holds
\* the bytes that this call downloaded.
C4_SuccessStoresDownload ==
  [][\A i \in Calls :
       (~Returned(i) /\ call'[i].pc = "returned" /\ call'[i].ret = "True")
         => /\ call'[i].filename \in DOMAIN dir'
            /\ inode'[dir'[call'[i].filename]] = call'[i].resp.body]_vars

C6_StoredNeverMutated ==
  [][\A n \in DOMAIN dir :
       ~IsTemp(n) => (n \in DOMAIN dir' /\ inode'[dir'[n]] = inode[dir[n]])]_vars

\* C7: two distinct URLs with different file names and the same image,
\* processed one after the other (without an I/O fault): the first call
\* returns Success, the second is skipped as a duplicate, and exactly one
\* file holds that content.
C7_SequentialDuplicateSkipped ==
  \A i, j \in Calls :
    ( /\ Sequential(i, j)
      /\ call[i].after = {}
      /\ call[i].url # call[j].url
      /\ GotImage(i) /\ GotImage(j)
      /\ call[i].resp.body = call[j].resp.body
      /\ call[i].filename # call[j].filename
      /\ ~call[i].fault /\ ~call[j].fault )
    => /\ call[i].ret = "True"
       /\ call[j].ret = "False" /\ call[j].outcome = "duplicate"
       /\ FilesWith(call[i].resp.body) = {call[i].filename}

C7_Witness ==
  \E i, j \in Calls :
    /\ Sequential(i, j)
    /\ call[i].url # call[j].url
    /\ call[i].filename # call[j].filename
    /\ call[i].ret = "True"
    /\ call[j].outcome = "duplicate"
    /\ FilesWith(call[i].resp.body) = {call[i].filename}

\* C8: the same URL with the same bytes fetched again after the first call
\* stored it: the second call is skipped as a duplicate and the directory is
\* as it was when the second call started, with no temp file.
C8_Idempotent ==
  \A i, j \in Calls :
    ( /\ Sequential(i, j)
      /\ call[i].url = call[j].url
      /\ GotImage(i) /\ GotImage(j)
      /\ call[i].resp.body = call[j].resp.body
      /\ call[i].ret = "True"
      /\ ~call[j].fault )
    => /\ call[j].ret = "False" /\ call[j].outcome = "duplicate"
       /\ Listing = call[j].before
       /\ TempNames = {}

C8_Witness ==
  \E i, j \in Calls :
    /\ Sequential(i, j)
    /\ call[i].url = call[j].url
    /\ call[i].ret = "True"
    /\ call[j].outcome = "duplicate"
    /\ call[j].before = (call[i].filename :> call[i].resp.body)
    /\ Listing = call[j].before

\* C9: the same image URL entered twice: whatever the interleaving of the two
\* workers (and without an I/O fault), one call returns Success, the other is
\* skipped as a duplicate, one file is stored and the summary reports 1/2.
C9_SameUrlTwice ==
  ( /\ mainpc = "done"
    /\ Len(urls) = 2
    /\ urls[1] = urls[2]
    /\ GotImage(1) /\ GotImage(2)
    /\ call[1].resp.body = call[2].resp.body
    /\ ~call[1].fault /\ ~call[2].fault )
  => /\ \E i, j \in Calls :
          /\ call[i].ret = "True"
          /\ call[j].ret = "False" /\ call[j].outcome = "duplicate"
     /\ Cardinality(DOMAIN dir) = 1
     /\ output = [kind |-> "summary", successes |-> 1, total |-> 2]

\* C10: for a non-empty list of URLs main ends with the summary line
\* <successes>/<total>, whatever the outcomes of the calls.
C10_SummaryPrinted ==
  (mainpc = "done" /\ urls # <<>>)
    => output = [kind |-> "summary",
                 successes |-> Cardinality({i \in Calls : call[i].ret = "True"}),
                 total |-> Len(urls)]

\* a PermissionError was raised in call i: by os.makedirs (nothing is bound
\* after the file name), by open or by os.rename
PermissionDenied(i) ==
  call[i].fault /\ (call[i].temp_path = Unbound \/ call[i].outcome = "permission")

\* C11: a PermissionError at os.makedirs, at the open of the temp file or at
\* the rename makes the call return False with the permission-denied outcome;
\* no exception leaves the call.
C11_PermissionFails ==
  \A i \in Calls :
    (Returned(i) /\ PermissionDenied(i))
      => (call[i].ret = "False" /\ call[i].outcome = "permission")

\* C12: the scan takes a download for a duplicate only of a promoted file: at
\* the step that finds the match, a file under a final (non-.tmp) name has the
\* hash of the download; another worker's temp file is never the match.
C12_DuplicateOnlyOfPromoted ==
  [][\A i \in Calls :
       (call[i].pc = "scan" /\ call'[i].pc = "remove_dup")
         => \E n \in DOMAIN dir :
              ~IsTemp(n) /\ get_file_hash(n) = call[i].new_hash]_vars

\* C13: when the first input line is blank, main reports the no-URLs error and
\* ends: the pool is never entered, no call of fetch_and_save_image exists and
\* neither the directory nor a file is created.
C13_BlankInput ==
  (mainpc # "input" /\ urls = <<>>)
    => /\ mainpc = "done"
       /\ output = [NoOutput EXCEPT !.kind = "no_urls"]
       /\ \A i \in DOMAIN call : call[i].pc = "queued"
       /\ ~dirExists /\ DOMAIN dir = {}

C13_Witness ==
  mainpc = "done" /\ urls = <<>> /\ output.kind = "no_urls" /\ ~dirExists

\* the spellings of the supported extensions, whatever the case of the letters
ImageExtSpellings ==
  {".jpg", ".JPG", ".jpeg", ".Jpeg", ".png", ".PNG", ".gif", ".GIF", ".bmp", ".Bmp"}

\* the last segment of a URL path, <<>> when the path is empty or ends in "/"
LastSegment(path) == IF path = <<>> THEN <<>> ELSE path[Len(path)]

\* C14: the file name is the basename of the URL path when that is non-empty
\* and ends, in any case of letters, in .jpg, .jpeg, .png, .gif or .bmp;
\* otherwise it is image_<timestamp>.jpg.  Host and query play no part.
C14_FileName ==
  \A i \in Calls :
    call[i].pc = "named" =>
      LET base == LastSegment(call[i].url.path) IN
      call[i].filename =
        IF base # <<>> /\ base[Len(base)] \in ImageExtSpellings
          THEN base
          ELSE <<"image_", strftime(now), ".jpg">>

C14_Witness ==
  \E i \in Calls :
    /\ call[i].pc = "named"
    /\ call[i].url.host = "mirror" /\ call[i].url.query # ""
    /\ call[i].filename = <<"a", ".PNG">>

\* C15: a call that returns Skipped(duplicate) has left the promoted files as
\* they were: none of its steps changed the content of a file under a final
\* name.
C15_DuplicateChangesNothing ==
  \A i \in Calls :
    (Returned(i) /\ call[i].outcome = "duplicate") => ~call[i].clobbered

\* C16: in every state a file under a final (non-.tmp) name holds the complete
\* bytes of a download, never an empty or partly written content.
C16_FinalFilesComplete ==
  \A n \in DOMAIN dir : ~IsTemp(n) => inode[dir[n]] \in Bodies

\* C17: once every call has returned, and no call met an I/O fault, each
\* image that a call downloaded is stored under some name.
C17_NoImageLost ==
  (AllReturned /\ \A j \in Calls : ~call[j].fault) =>
    \A i \in Calls : GotImage(i) => FilesWith(call[i].resp.body) # {}

\* call j has written its temp file and not yet promoted or removed it
HoldsTemp(j) ==
  /\ call[j].pc \in {"hash", "listdir", "scan", "remove_dup"}
  /\ call[j].temp_path \in DOMAIN dir
  /\ dir[call[j].temp_path] = call[j].fd
  /\ inode[call[j].fd] = call[j].resp.body

\* C18: a temp file a worker has written stays at its path with its content
\* through every step of the other workers.
C18_TempPrivate ==
  [][\A j \in Calls :
       (HoldsTemp(j) /\ call'[j] = call[j])
         => /\ call[j].temp_path \in DOMAIN dir'
            /\ dir'[call[j].temp_path] = call[j].fd
            /\ inode'[call[j].fd] = call[j].resp.body]_vars
====
